---------------------------- MODULE Spec2Model ----------------------------
(***************************************************************************)
(* GL reconciliation checker (streamlit_gl_recon_simple.py and the         *)
(* identical evaluate / to_bool / parse_date_safe of streamlit_app.py).    *)
(*                                                                         *)
(* Representation                                                          *)
(*   - a spreadsheet cell is a record [form, v, s]: form "none" is Python  *)
(*     None (column absent after normalisation), "nan" is the float NaN    *)
(*     pandas gives for a blank cell, "num" an int/float (bool included),  *)
(*     "str" a text cell, "date" a Timestamp (v = proleptic ordinal);      *)
(*   - text is a sequence of one-character strings, so that strip(),       *)
(*     lower(), int() and float() are computed and not assumed;            *)
(*   - a Python float is [nan, v], v in fixed point with PctDen steps per  *)
(*     unit, so that abs(gl) * tol_pct is exact; the cell pools only hold  *)
(*     whole numbers.                                                      *)
(***************************************************************************)
EXTENDS Integers, Sequences, FiniteSets, TLC

VARIABLES
    df,        \* evaluate: the data frame, a sequence of rows
    crit,      \* evaluate: the criteria dict
    idx,       \* evaluate: position of df.iterrows()
    pc,        \* evaluate: control point
    loc,       \* evaluate: locals of the current iteration (lines 70-106)
    failures,  \* evaluate: failures list of the current iteration
    severity,  \* evaluate: running severity of the current iteration
    results,   \* evaluate: results list
    locs,      \* history: the locals of every iteration that appended a result
    files,     \* main: collect_inputs(args.inputs), each a file on disk
    fidx,      \* main: position of the read loop
    frames,    \* main: frames list
    log,       \* main: what was printed
    rpc,       \* main: control point
    outp,      \* main: what was written (workbook sheets and csv)
    bIn,       \* to_bool: argument
    bOut,      \* to_bool: returned value
    bpc        \* to_bool: control point

evalVars == <<df, crit, idx, pc, loc, failures, severity, results, locs>>
mainVars == <<files, fidx, frames, log, rpc, outp>>
boolVars == <<bIn, bOut, bpc>>
vars == <<df, crit, idx, pc, loc, failures, severity, results, locs,
          files, fidx, frames, log, rpc, outp, bIn, bOut, bpc>>

---------------------------------------------------------------------------
(* Bounds of the model *)
MaxRows == 2      \* rows of a data frame handed to evaluate
MaxPad == 1       \* whitespace characters around a text given to to_bool
MaxFiles == 2     \* files of one run of main

(* Fixed-point steps per unit of a float *)
PctDen == 1000

---------------------------------------------------------------------------
(* Cells *)
NoneCell == [form |-> "none", v |-> 0, s |-> <<>>]
NaNCell == [form |-> "nan", v |-> 0, s |-> <<>>]
Num(n) == [form |-> "num", v |-> n, s |-> <<>>]
Str(t) == [form |-> "str", v |-> 0, s |-> t]

IsLeap(y) == (y % 4 = 0) /\ ((y % 100 # 0) \/ (y % 400 = 0))
DaysInMonth(y, m) ==
    IF m = 2 THEN (IF IsLeap(y) THEN 29 ELSE 28)
    ELSE IF m \in {4, 6, 9, 11} THEN 30 ELSE 31
RECURSIVE DaysBeforeMonth(_, _)
DaysBeforeMonth(y, m) ==
    IF m <= 1 THEN 0 ELSE DaysBeforeMonth(y, m - 1) + DaysInMonth(y, m - 1)
(* datetime.date(y, m, d).toordinal() *)
Ordinal(y, m, d) ==
    (y - 1) * 365 + ((y - 1) \div 4) - ((y - 1) \div 100) + ((y - 1) \div 400)
    + DaysBeforeMonth(y, m) + d
DateCell(y, m, d) == [form |-> "date", v |-> Ordinal(y, m, d), s |-> <<>>]

(* Python floats *)
F(n) == [nan |-> FALSE, v |-> n]
FNaN == [nan |-> TRUE, v |-> 0]
FAbs(x) == IF x.nan THEN x ELSE F(IF x.v < 0 THEN 0 - x.v ELSE x.v)
FSub(x, y) == IF x.nan \/ y.nan THEN FNaN ELSE F(x.v - y.v)
\* x * p / PctDen, p the fraction's numerator
FMulPct(x, p) == IF x.nan THEN FNaN ELSE F((x.v * p) \div PctDen)
\* x <= y is False as soon as one side is NaN
FLe(x, y) == (~x.nan) /\ (~y.nan) /\ x.v <= y.v
\* max(a, b) keeps a unless b > a
PyMax(a, b) == IF (~a.nan) /\ (~b.nan) /\ b.v > a.v THEN b ELSE a

---------------------------------------------------------------------------
(* Text *)
Whitespace == {" ", "\t"}
UpperChars == <<"A","B","C","D","E","F","G","H","I","J","K","L","M",
                "N","O","P","Q","R","S","T","U","V","W","X","Y","Z">>
LowerChars == <<"a","b","c","d","e","f","g","h","i","j","k","l","m",
                "n","o","p","q","r","s","t","u","v","w","x","y","z">>
DigitChars == <<"0","1","2","3","4","5","6","7","8","9">>

LowerChar(c) ==
    IF \E i \in 1..Len(UpperChars) : UpperChars[i] = c
    THEN LowerChars[CHOOSE i \in 1..Len(UpperChars) : UpperChars[i] = c]
    ELSE c
RECURSIVE Lower(_)
Lower(t) == IF t = <<>> THEN <<>> ELSE <<LowerChar(Head(t))>> \o Lower(Tail(t))
RECURSIVE LStrip(_)
LStrip(t) == IF t # <<>> /\ Head(t) \in Whitespace THEN LStrip(Tail(t)) ELSE t
RECURSIVE RStrip(_)
RStrip(t) ==
    IF t # <<>> /\ t[Len(t)] \in Whitespace
    THEN RStrip(SubSeq(t, 1, Len(t) - 1)) ELSE t
Strip(t) == RStrip(LStrip(t))

IsDigit(c) == \E i \in 1..10 : DigitChars[i] = c
DigitVal(c) == (CHOOSE i \in 1..10 : DigitChars[i] = c) - 1
AllDigits(t) == t # <<>> /\ \A i \in 1..Len(t) : IsDigit(t[i])
RECURSIVE DigitsVal(_)
DigitsVal(t) ==
    IF t = <<>> THEN 0
    ELSE DigitsVal(SubSeq(t, 1, Len(t) - 1)) * 10 + DigitVal(t[Len(t)])
(* int(text) / float(text) of a whole number: surrounding whitespace is
   dropped, one leading sign is allowed, anything else is a ValueError *)
ParseNum(t) ==
    LET u == Strip(t)
        neg == u # <<>> /\ Head(u) = "-"
        body == IF u # <<>> /\ Head(u) \in {"-", "+"} THEN Tail(u) ELSE u
    IN IF AllDigits(body)
       THEN [ok |-> TRUE, v |-> IF neg THEN 0 - DigitsVal(body) ELSE DigitsVal(body)]
       ELSE [ok |-> FALSE, v |-> 0]
(* pd.to_datetime(text): the model recognises ISO yyyy-mm-dd text; every
   other text of the pools is text pandas cannot parse *)
ParseDateText(t) ==
    LET u == Strip(t)
        shape == Len(u) = 10 /\ u[5] = "-" /\ u[8] = "-"
                 /\ AllDigits(SubSeq(u, 1, 4)) /\ AllDigits(SubSeq(u, 6, 7))
                 /\ AllDigits(SubSeq(u, 9, 10))
        y == DigitsVal(SubSeq(u, 1, 4))
        m == DigitsVal(SubSeq(u, 6, 7))
        d == DigitsVal(SubSeq(u, 9, 10))
    IN IF shape /\ y >= 1 /\ m \in 1..12 /\ d >= 1 /\ d <= DaysInMonth(y, m)
       THEN [ok |-> TRUE, v |-> Ordinal(y, m, d)]
       ELSE [ok |-> FALSE, v |-> 0]

---------------------------------------------------------------------------
(* Coercions of evaluate's prologue *)
NullDate == [null |-> TRUE, ord |-> 0]
DateOf(n) == [null |-> FALSE, ord |-> n]

(* parse_date_safe(x) *)
parse_date_safe(x) ==
    IF x.form \in {"none", "nan"} THEN NullDate
    ELSE IF x.form = "date" THEN DateOf(x.v)
    ELSE IF x.form = "num" THEN DateOf(Ordinal(1970, 1, 1))  \* nanoseconds since the epoch
    ELSE LET p == ParseDateText(x.s)
         IN IF p.ok THEN DateOf(p.v) ELSE NullDate

(* x truthy, as `x or default` tests it *)
Truthy(x) ==
    CASE x.form = "none" -> FALSE
      [] x.form = "nan" -> TRUE
      [] x.form = "num" -> x.v # 0
      [] x.form = "str" -> x.s # <<>>
      [] OTHER -> TRUE

(* float(x or 0.0): [ok, val]; ok = FALSE is a raised ValueError/TypeError *)
FloatOrZero(x) ==
    IF ~Truthy(x) THEN [ok |-> TRUE, val |-> F(0)]
    ELSE CASE x.form = "nan" -> [ok |-> TRUE, val |-> FNaN]
           [] x.form = "num" -> [ok |-> TRUE, val |-> F(x.v * PctDen)]
           [] x.form = "str" ->
                LET p == ParseNum(x.s)
                IN [ok |-> p.ok, val |-> F(p.v * PctDen)]
           [] OTHER -> [ok |-> FALSE, val |-> F(0)]   \* float(Timestamp)

(* int(x or 0): [ok, val]; int(NaN) raises *)
IntOrZero(x) ==
    IF ~Truthy(x) THEN [ok |-> TRUE, val |-> 0]
    ELSE CASE x.form = "nan" -> [ok |-> FALSE, val |-> 0]
           [] x.form = "num" -> [ok |-> TRUE, val |-> x.v]
           [] x.form = "str" ->
                LET p == ParseNum(x.s) IN [ok |-> p.ok, val |-> p.v]
           [] OTHER -> [ok |-> FALSE, val |-> 0]

(* str(n) of a whole number *)
RECURSIVE NatText(_)
NatText(n) ==
    IF n < 10 THEN <<DigitChars[n + 1]>>
    ELSE NatText(n \div 10) \o <<DigitChars[(n % 10) + 1]>>
IntText(n) == IF n < 0 THEN <<"-">> \o NatText(0 - n) ELSE NatText(n)

(* str(x or ""); a Timestamp prints as its date, written here "@" and the
   ordinal *)
StrOrEmpty(x) ==
    IF ~Truthy(x) THEN <<>>
    ELSE CASE x.form = "nan" -> <<"n", "a", "n">>
           [] x.form = "str" -> x.s
           [] x.form = "num" -> IntText(x.v)
           [] OTHER -> <<"@">> \o IntText(x.v)

(* x or "" *)
OrEmpty(x) == IF Truthy(x) THEN x ELSE Str(<<>>)

TruthyTexts == {<<"y">>, <<"y","e","s">>, <<"t","r","u","e">>, <<"1">>}

(* to_bool(x) *)
to_bool(x) ==
    IF x.form = "str" THEN Lower(Strip(x.s)) \in TruthyTexts
    ELSE IF x.form \in {"num", "nan"} THEN (x.form = "nan" \/ x.v # 0)
    ELSE FALSE

---------------------------------------------------------------------------
(* The four checks of evaluate (lines 84-106) *)

(* variance = gl_bal - sub_bal *)
Variance(gl_bal, sub_bal) == FSub(gl_bal, sub_bal)

(* tol = max(tol_abs, abs(gl_bal) * tol_pct) *)
\* variant: the two tolerances added
TolSum(gl_bal, c) ==
    LET a == F(c.tieout_tolerance_abs * PctDen)
        b == FMulPct(FAbs(gl_bal), c.tieout_tolerance_pct)
    IN IF b.nan THEN a ELSE F(a.v + b.v)
Tol(gl_bal, c) ==
    PyMax(F(c.tieout_tolerance_abs * PctDen),
          FMulPct(FAbs(gl_bal), c.tieout_tolerance_pct))

(* tieout_pass = abs(variance) <= tol *)
TieoutPass(variance, tol) == FLe(FAbs(variance), tol)

(* sod_pass = (preparer != approver) if sod_required else True *)
SodPass(preparer, approver, c) ==
    IF c.require_sod THEN preparer # approver ELSE TRUE

(* sla_over: None, or max(0, delta_days - sla_days) when both dates are set *)
NoSla == [none |-> TRUE, v |-> 0]
\* variant: without the max(0, .)
SlaOverRaw(approved_on, period_end, c) ==
    IF (~approved_on.null) /\ (~period_end.null)
    THEN [none |-> FALSE,
          v |-> (approved_on.ord - period_end.ord) - c.timeliness_sla_days]
    ELSE NoSla
SlaOver(approved_on, period_end, c) ==
    IF (~approved_on.null) /\ (~period_end.null)
    THEN LET d == (approved_on.ord - period_end.ord) - c.timeliness_sla_days
         IN [none |-> FALSE, v |-> IF d > 0 THEN d ELSE 0]
    ELSE NoSla

(* timely_pass: True unless both dates are set and delta_days > sla_days *)
TimelyPass(approved_on, period_end, c) ==
    IF (~approved_on.null) /\ (~period_end.null)
    THEN (approved_on.ord - period_end.ord) <= c.timeliness_sla_days
    ELSE TRUE

(* aging_pass = (items_over == 0) or (allow_over_with_plan and plan) *)
AgingPass(items_over, plan, c) ==
    (items_over = 0) \/ (c.allow_items_over_threshold_with_plan /\ plan)

(* Lines 70-106: the locals of one iteration; ok = FALSE when a coercion of
   the prologue raises *)
Locals(r, c) ==
    LET gl == FloatOrZero(r.gl_ending_balance)
        sub == FloatOrZero(r.subledger_ending_balance)
        items == IntOrZero(r.items_over_aging_threshold)
        period_end == parse_date_safe(r.period_end_date)
        approved_on == parse_date_safe(r.approved_on)
        preparer == StrOrEmpty(r.preparer)
        approver == StrOrEmpty(r.approver)
        plan == to_bool(r.action_plan_present)
        variance == Variance(gl.val, sub.val)
        tol == Tol(gl.val, c)
    IN [ok |-> gl.ok /\ sub.ok /\ items.ok,
        entity |-> r.entity,
        account_id |-> r.account_id,
        account_name |-> r.account_name,
        period_end |-> period_end,
        gl_bal |-> gl.val,
        sub_bal |-> sub.val,
        preparer |-> preparer,
        approver |-> approver,
        approved_on |-> approved_on,
        items_over |-> items.val,
        plan |-> plan,
        evidence |-> OrEmpty(r.documentation_links),
        variance |-> variance,
        tol |-> tol,
        tieout_pass |-> TieoutPass(variance, tol),
        sod_pass |-> SodPass(preparer, approver, c),
        sla_over |-> SlaOver(approved_on, period_end, c),
        timely_pass |-> TimelyPass(approved_on, period_end, c),
        aging_pass |-> AgingPass(items.val, plan, c)]

---------------------------------------------------------------------------
(* Aggregation (lines 108-125) *)

(* f"{x:,.2f}": the value rounded to hundredths, half to even *)
Fmt2(x) ==
    IF x.nan THEN x
    ELSE LET k == PctDen \div 100
             q == x.v \div k
             r == x.v % k
         IN F(IF 2 * r < k THEN q
              ELSE IF 2 * r > k THEN q + 1
              ELSE IF q % 2 = 0 THEN q ELSE q + 1)

Msg(kind, a, b) == [kind |-> kind, a |-> a, b |-> b]
TieoutMsg(variance, tol) == Msg("Tie-out variance exceeds tolerance", Fmt2(variance), Fmt2(tol))
SodMsg == Msg("Segregation of duties failed (preparer equals approver)", F(0), F(0))
SlaMsg(sla_over) == Msg("Approval exceeded SLA by day(s)", F(sla_over.v), F(0))
AgingMsg == Msg("Aged items without action plan", F(0), F(0))
AllPassedMsg == Msg("All checks passed within thresholds.", F(0), F(0))
SepTok == Msg(" | ", F(0), F(0))

(* severity = "high" *)
SeverityOnTieoutFail(sev) == "high"
SeverityOnSodFail(sev) == "high"
(* severity = "medium" if severity != "high" else "high" *)
\* variant: "medium" whatever the severity was
SeverityOnTimelyFailNoGuard(sev) == "medium"
SeverityOnTimelyFail(sev) == IF sev # "high" THEN "medium" ELSE "high"
(* severity = "medium" if severity == "low" else severity *)
\* variant: an aging failure raising "low" to "high"
SeverityOnAgingFailHigh(sev) == IF sev = "low" THEN "high" ELSE sev
SeverityOnAgingFail(sev) == IF sev = "low" THEN "medium" ELSE sev

(* status = "pass" if not failures else ("fail" if severity == "high" else "warn") *)
\* variant: status decided by the severity alone
StatusBySeverityOnly(fs, sev) == IF sev # "high" THEN "pass" ELSE "fail"
Status(fs, sev) ==
    IF fs = <<>> THEN "pass" ELSE (IF sev = "high" THEN "fail" ELSE "warn")

(* " | ".join(failures) if failures else "All checks passed within thresholds." *)
RECURSIVE Join(_)
Join(fs) ==
    IF Len(fs) = 1 THEN fs
    ELSE <<Head(fs), SepTok>> \o Join(Tail(fs))
Rationale(fs) == IF fs = <<>> THEN <<AllPassedMsg>> ELSE Join(fs)

(* The dict appended to results (lines 127-142; the run id and the checklist
   version label are constant over a call and are left out) *)
Result(l, fs, sev) ==
    [entity |-> l.entity,
     account_id |-> l.account_id,
     account_name |-> l.account_name,
     period_end_date |-> l.period_end,
     status |-> Status(fs, sev),
     severity |-> sev,
     rationale |-> Rationale(fs),
     variance_amount |-> l.variance,
     sla_days_over |-> IF l.sla_over.none THEN 0 ELSE l.sla_over.v,
     sod_violation |-> ~l.sod_pass,
     aged_items_flag |-> ~l.aging_pass,
     evidence_link |-> l.evidence]

---------------------------------------------------------------------------
(* Input pools *)
STD_COLS == {"entity", "account_id", "account_name", "period_start_date",
             "period_end_date", "gl_ending_balance", "subledger_ending_balance",
             "preparer", "prepared_on", "approver", "approved_on",
             "reconciling_items_count", "items_over_aging_threshold",
             "action_plan_present", "documentation_links"}

TxtJLee == <<"J", ".", "L", "e", "e">>
TxtJLeeLower == <<"j", ".", "l", "e", "e">>
TxtAKim == <<"A", ".", "K", "i", "m">>
TxtAbc == <<"a", "b", "c">>
TxtYes == <<"Y", "e", "s">>
TxtNo == <<"n", "o">>

Row(pe, gl, sub, prep, appr, ao, items, plan) ==
    [entity |-> Str(<<"U", "S">>),
     account_id |-> Num(1001),
     account_name |-> Str(<<"C", "a", "s", "h">>),
     period_start_date |-> NoneCell,
     period_end_date |-> pe,
     gl_ending_balance |-> gl,
     subledger_ending_balance |-> sub,
     preparer |-> prep,
     prepared_on |-> NoneCell,
     approver |-> appr,
     approved_on |-> ao,
     reconciling_items_count |-> NoneCell,
     items_over_aging_threshold |-> items,
     action_plan_present |-> plan,
     documentation_links |-> NoneCell]

PeriodEnd == DateCell(2024, 1, 31)
OnTime == DateCell(2024, 2, 3)
Late == DateCell(2024, 2, 10)
GoodRow == Row(PeriodEnd, Num(100000), Num(100500), Str(TxtJLee), Str(TxtAKim),
               OnTime, Num(0), Str(TxtNo))
With(r, col, cell) == [r EXCEPT ![col] = cell]
With2(r, c1, x1, c2, x2) == [r EXCEPT ![c1] = x1, ![c2] = x2]

GlCells == {Num(100000), Num(0 - 100000), NaNCell, NoneCell,
            Str(TxtAbc), Str(<<" ", "5", "0", "0", " ">>)}
SubCells == {Num(100500), Num(100200), Num(100250), Num(99000), Num(98999),
             NaNCell, Str(<<>>), Str(<<" ">>)}
NameCells == {Str(TxtJLee), Str(TxtJLeeLower), NoneCell, NaNCell}
PeriodEndCells == {PeriodEnd, NoneCell, NaNCell, Str(TxtAbc),
                   Str(<<"2","0","2","4","-","0","1","-","3","1">>)}
ApprovedCells == {OnTime, Late, DateCell(2024, 2, 5), DateCell(2024, 2, 6),
                  DateCell(2024, 1, 20), NoneCell,
                  Str(<<"2","0","2","4","-","0","2","-","3","0">>)}
ItemsCells == {Num(0), Num(3), NaNCell, NoneCell, Str(<<"3">>), Str(<<"x">>)}
PlanCells == {Str(TxtYes), Str(<<" ", "y", " ">>), Str(TxtNo), Str(<<>>),
              NoneCell, NaNCell, Num(1)}

TiePool == {With2(GoodRow, "gl_ending_balance", g, "subledger_ending_balance", s) :
              g \in GlCells, s \in SubCells}
SodPool == {With2(GoodRow, "preparer", a, "approver", b) :
              a \in NameCells, b \in NameCells}
TimePool == {With2(GoodRow, "period_end_date", a, "approved_on", b) :
               a \in PeriodEndCells, b \in ApprovedCells}
AgePool == {With2(GoodRow, "items_over_aging_threshold", a, "action_plan_present", b) :
              a \in ItemsCells, b \in PlanCells}
(* every combination of passing and failing checks *)
MixPool == {Row(PeriodEnd, Num(100000), s, Str(TxtJLee), a, o, i, Str(TxtNo)) :
              s \in {Num(100500), Num(98999)}, a \in {Str(TxtAKim), Str(TxtJLee)},
              o \in {OnTime, Late}, i \in {Num(0), Num(3)}}
FullPool == TiePool \cup SodPool \cup TimePool \cup AgePool \cup MixPool

WarnRow == Row(PeriodEnd, Num(100000), Num(100500), Str(TxtJLee), Str(TxtAKim),
               Late, Num(3), Str(TxtNo))
RaisingRow == With(GoodRow, "gl_ending_balance", Str(TxtAbc))
SmallPool == {WarnRow, RaisingRow}

(* data frames: one row of the full pool at any position, the others of the
   small pool *)
DfPool ==
    {<<>>} \cup
    UNION {UNION {{[j \in 1..n |-> IF j = i THEN r ELSE f[j]] :
                     r \in FullPool, f \in [1..n -> SmallPool]} :
                  i \in 1..n} : n \in 1..MaxRows}

Crit(sla, abs, pct, sod, allow) ==
    [timeliness_sla_days |-> sla,
     tieout_tolerance_abs |-> abs,
     tieout_tolerance_pct |-> pct,
     require_sod |-> sod,
     allow_items_over_threshold_with_plan |-> allow,
     aging_threshold_days |-> 60]
(* main's default criteria: tol_pct 0.002 is 2 / PctDen *)
DefaultCrit == Crit(5, 1000, 2, TRUE, TRUE)
CritPool == {DefaultCrit, Crit(5, 100, 2, TRUE, TRUE), Crit(5, 1000, 2, FALSE, FALSE),
             Crit(0, 0, 0, TRUE, FALSE)}

BlankRow == [c \in STD_COLS |-> NoneCell]
NoLoc == Locals(BlankRow, DefaultCrit)
NoOutp == [written |-> FALSE, input |-> <<>>, criteria |-> DefaultCrit,
           results |-> <<>>, csv |-> <<>>]

---------------------------------------------------------------------------
(* evaluate(df, crit) *)

EvalEntry(d, c) ==
    /\ df' = d
    /\ crit' = c
    /\ idx' = 1
    /\ pc' = "loop"
    /\ loc' = NoLoc
    /\ failures' = <<>>
    /\ severity' = "low"
    /\ results' = <<>>
    /\ locs' = <<>>

(* for _, r in df.iterrows(): exhausted; return pd.DataFrame(results) *)
EvalReturn ==
    /\ pc = "loop"
    /\ idx > Len(df)
    /\ pc' = "done"
    /\ UNCHANGED <<df, crit, idx, loc, failures, severity, results, locs>>
    /\ UNCHANGED <<mainVars, boolVars>>

(* lines 70-110 for the next row, no coercion raising *)
EvalRow ==
    /\ pc = "loop"
    /\ idx <= Len(df)
    /\ Locals(df[idx], crit).ok
    /\ loc' = Locals(df[idx], crit)
    /\ failures' = <<>>
    /\ severity' = "low"
    /\ pc' = "tieout"
    /\ UNCHANGED <<df, crit, idx, results, locs>>
    /\ UNCHANGED <<mainVars, boolVars>>

(* float() or int() of the prologue raises: the exception leaves evaluate *)
EvalRaise ==
    /\ pc = "loop"
    /\ idx <= Len(df)
    /\ ~Locals(df[idx], crit).ok
    /\ pc' = "raised"
    /\ UNCHANGED <<df, crit, idx, loc, failures, severity, results, locs>>
    /\ UNCHANGED <<mainVars, boolVars>>

(* if not tieout_pass: ... *)
AggTieout ==
    /\ pc = "tieout"
    /\ IF ~loc.tieout_pass
       THEN /\ failures' = Append(failures, TieoutMsg(loc.variance, loc.tol))
            /\ severity' = SeverityOnTieoutFail(severity)
       ELSE UNCHANGED <<failures, severity>>
    /\ pc' = "sod"
    /\ UNCHANGED <<df, crit, idx, loc, results, locs>>
    /\ UNCHANGED <<mainVars, boolVars>>

(* if not sod_pass: ... *)
AggSod ==
    /\ pc = "sod"
    /\ IF ~loc.sod_pass
       THEN /\ failures' = Append(failures, SodMsg)
            /\ severity' = SeverityOnSodFail(severity)
       ELSE UNCHANGED <<failures, severity>>
    /\ pc' = "timely"
    /\ UNCHANGED <<df, crit, idx, loc, results, locs>>
    /\ UNCHANGED <<mainVars, boolVars>>

(* if not timely_pass: ... *)
AggTimely ==
    /\ pc = "timely"
    /\ IF ~loc.timely_pass
       THEN /\ failures' = Append(failures, SlaMsg(loc.sla_over))
            /\ severity' = SeverityOnTimelyFail(severity)
       ELSE UNCHANGED <<failures, severity>>
    /\ pc' = "aging"
    /\ UNCHANGED <<df, crit, idx, loc, results, locs>>
    /\ UNCHANGED <<mainVars, boolVars>>

(* if not aging_pass: ... *)
AggAging ==
    /\ pc = "aging"
    /\ IF ~loc.aging_pass
       THEN /\ failures' = Append(failures, AgingMsg)
            /\ severity' = SeverityOnAgingFail(severity)
       ELSE UNCHANGED <<failures, severity>>
    /\ pc' = "emit"
    /\ UNCHANGED <<df, crit, idx, loc, results, locs>>
    /\ UNCHANGED <<mainVars, boolVars>>

(* status, rationale, results.append({...}); next row *)
EvalEmit ==
    /\ pc = "emit"
    /\ results' = Append(results, Result(loc, failures, severity))
    /\ locs' = Append(locs, loc)
    /\ idx' = idx + 1
    /\ pc' = "loop"
    /\ UNCHANGED <<df, crit, loc, failures, severity>>
    /\ UNCHANGED <<mainVars, boolVars>>

MainIdle ==
    /\ files = <<>>
    /\ fidx = 1
    /\ frames = <<>>
    /\ log = <<>>
    /\ outp = NoOutp
BoolIdle ==
    /\ bIn = NoneCell
    /\ bOut = FALSE
    /\ bpc = "idle"

(* evaluate called on a data frame and criteria *)
InitEval ==
    /\ df \in DfPool
    /\ crit \in CritPool
    /\ idx = 1
    /\ pc = "loop"
    /\ loc = NoLoc
    /\ failures = <<>>
    /\ severity = "low"
    /\ results = <<>>
    /\ locs = <<>>
    /\ rpc = "direct"
    /\ MainIdle
    /\ BoolIdle

NextEval ==
    \/ EvalReturn
    \/ EvalRow
    \/ EvalRaise
    \/ AggTieout
    \/ AggSod
    \/ AggTimely
    \/ AggAging
    \/ EvalEmit

SpecEval == InitEval /\ [][NextEval]_vars

---------------------------------------------------------------------------
(* Properties of evaluate.  results[i] is the result of row df[i], locs[i]
   the locals evaluate held for it. *)

Done == 1..Len(results)
AbsI(n) == IF n < 0 THEN 0 - n ELSE n
MaxI(a, b) == IF a >= b THEN a ELSE b
Rank(s) == CASE s = "low" -> 0 [] s = "medium" -> 1 [] s = "high" -> 2
AllPass(l) == l.tieout_pass /\ l.sod_pass /\ l.timely_pass /\ l.aging_pass
Kinds(ms) == [k \in 1..Len(ms) |-> ms[k].kind]

(* C1: a result has status "pass" exactly when the four check predicates of
   its record are all true, and exactly then its rationale is the fixed
   success message (no failure message was collected). *)
C1_PassIffAllChecks ==
    \A i \in Done :
        /\ (results[i].status = "pass") <=> AllPass(locs[i])
        /\ (results[i].status = "pass") <=> (results[i].rationale = <<AllPassedMsg>>)
        /\ results[i].status \in {"pass", "warn", "fail"}
C1_Witness ==
    /\ pc = "done"
    /\ \E i \in Done : results[i].status = "pass" /\ AllPass(locs[i])
    /\ \E i \in Done : results[i].status = "warn" /\ ~AllPass(locs[i])

(* C2: status is "fail" exactly when the final severity is "high", which is
   exactly when tie-out or SoD failed; a record failing only timeliness
   and/or aging is "warn" with severity "medium"; a failing SoD check gives
   "fail" whatever the other checks return. *)
C2_FailIffHigh ==
    \A i \in Done :
        /\ (results[i].status = "fail") <=> (results[i].severity = "high")
        /\ (results[i].severity = "high") <=>
               ((~locs[i].tieout_pass) \/ (~locs[i].sod_pass))
        /\ (locs[i].tieout_pass /\ locs[i].sod_pass
              /\ ((~locs[i].timely_pass) \/ (~locs[i].aging_pass)))
               => (results[i].status = "warn" /\ results[i].severity = "medium")
        /\ results[i].sod_violation => results[i].status = "fail"
C2_Witness ==
    /\ \E i \in Done : /\ results[i].status = "warn"
                       /\ results[i].severity = "medium"
                       /\ ~locs[i].timely_pass
                       /\ ~locs[i].aging_pass
    /\ \E i \in Done : /\ results[i].sod_violation
                       /\ locs[i].tieout_pass
                       /\ locs[i].timely_pass
                       /\ locs[i].aging_pass
                       /\ results[i].status = "fail"

(* C6: timeliness.  With a null approved_on or period_end_date the check
   passes and sla_days_over is 0; otherwise, with delta = approved_on -
   period_end_date in days, it passes iff delta <= timeliness_sla_days and
   sla_days_over = max(0, delta - timeliness_sla_days).  sla_days_over is
   never negative and is positive exactly when the check failed, in which
   case the rationale carries the SLA message with that number. *)
C6_Timeliness ==
    \A i \in Done :
        LET ao == locs[i].approved_on
            pe == locs[i].period_end
            delta == ao.ord - pe.ord
            sla == crit.timeliness_sla_days
            over == results[i].sla_days_over
            late == \E k \in 1..Len(results[i].rationale) :
                        results[i].rationale[k] = SlaMsg([none |-> FALSE, v |-> over])
        IN /\ (ao.null \/ pe.null) => (locs[i].timely_pass /\ over = 0)
           /\ ((~ao.null) /\ (~pe.null)) =>
                  /\ locs[i].timely_pass <=> (delta <= sla)
                  /\ over = MaxI(0, delta - sla)
           /\ over >= 0
           /\ (over > 0) <=> ~locs[i].timely_pass
           /\ late <=> ~locs[i].timely_pass
C6_Witness ==
    /\ crit.timeliness_sla_days = 5
    /\ \E i \in Done : /\ df[i].period_end_date = DateCell(2024, 1, 31)
                       /\ df[i].approved_on = DateCell(2024, 2, 10)
                       /\ results[i].sla_days_over = 5
                       /\ ~locs[i].timely_pass
    /\ \E i \in Done : /\ df[i].approved_on = DateCell(2024, 1, 20)
                       /\ ~locs[i].period_end.null
                       /\ results[i].sla_days_over = 0

(* C7: tie-out.  variance_amount is G - S, the tolerance is the larger of
   tieout_tolerance_abs and |G| x tieout_tolerance_pct (not their sum), the
   check passes iff |G - S| <= tolerance (equality passes); G = 100000,
   S = 100500 passes with A = 1000, P = 0.002 and fails with A = 100.
   Floats are in the fixed point of PctDen steps per unit. *)
C7_Tieout ==
    \A i \in Done :
        LET G == locs[i].gl_bal
            S == locs[i].sub_bal
            A == crit.tieout_tolerance_abs * PctDen
            T == MaxI(A, (AbsI(G.v) * crit.tieout_tolerance_pct) \div PctDen)
        IN /\ (G.nan \/ S.nan) => (results[i].variance_amount.nan /\ ~locs[i].tieout_pass)
           /\ ((~G.nan) /\ (~S.nan)) =>
                  /\ results[i].variance_amount = [nan |-> FALSE, v |-> G.v - S.v]
                  /\ locs[i].tol = [nan |-> FALSE, v |-> T]
                  /\ locs[i].tieout_pass <=> (AbsI(G.v - S.v) <= T)
           /\ (G.v = 100000 * PctDen /\ S.v = 100500 * PctDen /\ (~G.nan) /\ (~S.nan)
                 /\ crit.tieout_tolerance_pct = 2) =>
                  /\ crit.tieout_tolerance_abs = 1000 => locs[i].tieout_pass
                  /\ crit.tieout_tolerance_abs = 100 => ~locs[i].tieout_pass
C7_Witness ==
    /\ crit.tieout_tolerance_abs = 100
    /\ crit.tieout_tolerance_pct = 2
    /\ \E i \in Done : /\ df[i].gl_ending_balance = Num(100000)
                       /\ df[i].subledger_ending_balance = Num(100200)
                       /\ locs[i].tieout_pass
    /\ \E i \in Done : /\ df[i].gl_ending_balance = Num(100000)
                       /\ df[i].subledger_ending_balance = Num(100500)
                       /\ ~locs[i].tieout_pass
                       /\ results[i].status = "fail"

(* C10: within one record the running severity starts at "low" and never
   decreases through tie-out, SoD, timeliness, aging: a failing tie-out or
   SoD sets "high", a failing timeliness check sets "medium" unless already
   "high", a failing aging check only raises "low" to "medium"; every check
   runs whatever the earlier ones returned, each failing check adds exactly
   one message, and the rationale is the messages of the failing checks in
   that order joined by " | ". *)
AggPcs == {"tieout", "sod", "timely", "aging", "emit"}
ExpectedKinds(l) ==
    (IF l.tieout_pass THEN <<>> ELSE <<TieoutMsg(l.variance, l.tol).kind>>)
    \o (IF l.sod_pass THEN <<>> ELSE <<SodMsg.kind>>)
    \o (IF l.timely_pass THEN <<>> ELSE <<SlaMsg(l.sla_over).kind>>)
    \o (IF l.aging_pass THEN <<>> ELSE <<AgingMsg.kind>>)
StepAdds(failed) ==
    IF failed THEN Len(failures') = Len(failures) + 1
                   /\ SubSeq(failures', 1, Len(failures)) = failures
    ELSE failures' = failures
C10_Step ==
    /\ (pc = "loop" /\ pc' = "tieout") => (severity' = "low" /\ failures' = <<>>)
    /\ (pc \in AggPcs) => Rank(severity') >= Rank(severity)
    /\ (pc = "tieout") =>
          /\ pc' = "sod"
          /\ severity' = IF ~loc.tieout_pass THEN "high" ELSE severity
          /\ StepAdds(~loc.tieout_pass)
    /\ (pc = "sod") =>
          /\ pc' = "timely"
          /\ severity' = IF ~loc.sod_pass THEN "high" ELSE severity
          /\ StepAdds(~loc.sod_pass)
    /\ (pc = "timely") =>
          /\ pc' = "aging"
          /\ severity' = IF (~loc.timely_pass) /\ severity # "high"
                         THEN "medium" ELSE severity
          /\ StepAdds(~loc.timely_pass)
    /\ (pc = "aging") =>
          /\ pc' = "emit"
          /\ severity' = IF (~loc.aging_pass) /\ severity = "low"
                         THEN "medium" ELSE severity
          /\ StepAdds(~loc.aging_pass)
C10_Collected ==
    /\ (pc = "emit") => Kinds(failures) = ExpectedKinds(loc)
    /\ \A i \in Done :
          LET ks == ExpectedKinds(locs[i])
              ra == results[i].rationale
          IN IF ks = <<>> THEN ra = <<AllPassedMsg>>
             ELSE /\ Len(ra) = 2 * Len(ks) - 1
                  /\ \A k \in 1..Len(ks) : ra[2 * k - 1].kind = ks[k]
                  /\ \A k \in 1..(Len(ks) - 1) : ra[2 * k] = SepTok
(* C10: every step of the aggregation keeps or raises the severity as its
   check prescribes and adds one message per failing check (C10_Step), and
   the failures collected and every rationale list the failing checks in the
   fixed order, joined by the separator (C10_Collected). *)
C10_SeverityMonotone == [][C10_Step]_vars /\ []C10_Collected
C10_Witness ==
    /\ pc = "loop"
    /\ \E i \in Done : /\ Len(results[i].rationale) = 7
                       /\ results[i].severity = "high"
                       /\ ~locs[i].timely_pass
    /\ \E i \in Done : /\ Len(results[i].rationale) = 3
                       /\ results[i].severity = "medium"

Verdict(r) == <<r.status, r.severity, r.rationale, r.variance_amount,
                r.sla_days_over, r.sod_violation, r.aged_items_flag>>
(* C3 (as stated): evaluate returns one result per input record, in input
   order, carrying the identity fields of its record, and equal records get
   equal verdicts wherever they stand in the frame. *)
C3_OnePerRecord ==
    (pc \in {"done", "raised"}) =>
        /\ Len(results) = Len(df)
        /\ \A i \in Done : /\ results[i].entity = df[i].entity
                           /\ results[i].account_id = df[i].account_id
                           /\ results[i].account_name = df[i].account_name
        /\ \A i \in Done, j \in Done :
               df[i] = df[j] => Verdict(results[i]) = Verdict(results[j])

MissingOrUnparseableNum(x) ==
    \/ x.form \in {"none", "nan"}
    \/ x.form = "str" /\ ~ParseNum(x.s).ok
MissingOrUnparseableDate(x) ==
    \/ x.form \in {"none", "nan"}
    \/ x.form = "str" /\ ~ParseDateText(x.s).ok
(* C4 (as stated): no coercion error leaves evaluate, and a missing or
   unparseable numeric cell is evaluated as 0, a missing or unparseable date
   cell as null. *)
C4_CoercionNeverPropagates ==
    /\ pc # "raised"
    /\ \A i \in Done :
          /\ MissingOrUnparseableNum(df[i].gl_ending_balance)
                => locs[i].gl_bal = [nan |-> FALSE, v |-> 0]
          /\ MissingOrUnparseableNum(df[i].subledger_ending_balance)
                => locs[i].sub_bal = [nan |-> FALSE, v |-> 0]
          /\ MissingOrUnparseableNum(df[i].items_over_aging_threshold)
                => locs[i].items_over = 0
          /\ MissingOrUnparseableDate(df[i].period_end_date) => locs[i].period_end.null
          /\ MissingOrUnparseableDate(df[i].approved_on) => locs[i].approved_on.null

PlanAbsent(x) ==
    \/ x.form \in {"none", "nan"}
    \/ x.form = "num" /\ x.v = 0
    \/ x.form = "str" /\ Lower(Strip(x.s)) \notin TruthyTexts
(* C9 (as stated): aging passes iff items_over_aging_threshold == 0 or the
   plan waiver is allowed and action_plan_present is true, aged_items_flag is
   its negation, and a record with items over the threshold whose action plan
   cell is false, missing or empty fails the check even with the waiver
   allowed. *)
C9_Aging ==
    \A i \in Done :
        /\ locs[i].aging_pass <=>
              (locs[i].items_over = 0
                 \/ (crit.allow_items_over_threshold_with_plan /\ locs[i].plan))
        /\ results[i].aged_items_flag = ~locs[i].aging_pass
        /\ (locs[i].items_over > 0 /\ PlanAbsent(df[i].action_plan_present))
              => results[i].aged_items_flag

---------------------------------------------------------------------------
(* to_bool(x) on its own *)

RECURSIVE Pad(_)
Pad(n) == IF n = 0 THEN <<>> ELSE <<" ">> \o Pad(n - 1)
BoolCores == {<<"y">>, <<"Y">>, <<"y","e","s">>, <<"Y","e","s">>, <<"Y","E","S">>,
              <<"t","r","u","e">>, <<"T","R","U","E">>, <<"T","r","u","e">>,
              <<"1">>, <<"n","o">>, <<"N","o">>, <<"0">>, <<>>, <<"n">>, <<"2">>,
              <<"y","e","s","s">>, <<"o","n">>, <<"f","a","l","s","e">>,
              <<"y"," ","e","s">>, <<"n","a","n">>}
BoolTexts == {Pad(a) \o c \o Pad(b) : a \in 0..MaxPad, b \in 0..MaxPad, c \in BoolCores}
BoolInputs == {Str(s) : s \in BoolTexts}
              \cup {Num(n) : n \in {0 - 1, 0, 1, 2}}
              \cup {NaNCell, NoneCell, DateCell(2024, 1, 31)}

(* if isinstance(x, str): return x.strip().lower() in [...] *)
ToBoolStr ==
    /\ bpc = "call"
    /\ bIn.form = "str"
    /\ bOut' = to_bool(bIn)
    /\ bpc' = "ret"
    /\ UNCHANGED <<bIn, evalVars, mainVars>>

(* if isinstance(x, (int, float)): return bool(x) *)
ToBoolNumber ==
    /\ bpc = "call"
    /\ bIn.form \in {"num", "nan"}
    /\ bOut' = to_bool(bIn)
    /\ bpc' = "ret"
    /\ UNCHANGED <<bIn, evalVars, mainVars>>

(* return False *)
ToBoolOther ==
    /\ bpc = "call"
    /\ bIn.form \notin {"str", "num", "nan"}
    /\ bOut' = to_bool(bIn)
    /\ bpc' = "ret"
    /\ UNCHANGED <<bIn, evalVars, mainVars>>

EvalIdle ==
    /\ df = <<>>
    /\ crit = DefaultCrit
    /\ idx = 1
    /\ pc = "idle"
    /\ loc = NoLoc
    /\ failures = <<>>
    /\ severity = "low"
    /\ results = <<>>
    /\ locs = <<>>

InitBool ==
    /\ bIn \in BoolInputs
    /\ bOut = FALSE
    /\ bpc = "call"
    /\ EvalIdle
    /\ rpc = "direct"
    /\ MainIdle

NextBool ==
    \/ ToBoolStr
    \/ ToBoolNumber
    \/ ToBoolOther

SpecBool == InitBool /\ [][NextBool]_vars

ClaimedTrue(x) ==
    \/ x.form = "str" /\ Lower(x.s) \in TruthyTexts
    \/ x.form = "num" /\ x.v # 0
(* C8 (as stated): to_bool returns true exactly for a text that is, case
   ignored, one of "y", "yes", "true", "1", and for a non-zero number; it
   returns false for every other text, for zero, for None and for a missing
   value; it returns for every input. *)
C8_ToBool == (bpc = "ret") => (bOut <=> ClaimedTrue(bIn))

---------------------------------------------------------------------------
(* main() of streamlit_gl_recon_simple.py, with the default criteria and the
   default (identity) column map.  A file is [name, readable, cols, rows]:
   whether read_any returns, the header it has and its rows. *)

File(name, readable, cols, rows) ==
    [name |-> name, readable |-> readable, cols |-> cols, rows |-> rows]
Restrict(r, cols) == [c \in cols |-> r[c]]
FewCols == {"entity", "account_id", "gl_ending_balance", "subledger_ending_balance"}
FilePool ==
    {File("broken.xlsx", FALSE, {}, <<>>),
     File("header_only.csv", TRUE, STD_COLS, <<>>),
     File("good.csv", TRUE, STD_COLS, <<GoodRow>>),
     File("few_columns.csv", TRUE, FewCols, <<Restrict(GoodRow, FewCols)>>),
     File("text_balance.csv", TRUE, STD_COLS, <<RaisingRow>>),
     File("two_rows.csv", TRUE, STD_COLS, <<WarnRow, GoodRow>>)}
FileSeqs == UNION {[1..n -> FilePool] : n \in 0..MaxFiles}

(* normalize_columns(df, colmap): absent standard columns become None, the
   standard columns are kept *)
NormalizeColumns(f) ==
    IF f.rows = <<>> THEN <<>>
    ELSE [k \in 1..Len(f.rows) |->
            [c \in STD_COLS |-> IF c \in f.cols THEN f.rows[k][c] ELSE NoneCell]]

(* pd.concat(frames, ignore_index=True) *)
RECURSIVE Concat(_)
Concat(fs) == IF fs = <<>> THEN <<>> ELSE Head(fs) \o Concat(Tail(fs))

LogLine(msg, file) == [msg |-> msg, file |-> file]

(* files = collect_inputs(...); if not files: print, sys.exit(1) *)
MainCollect ==
    /\ rpc = "start"
    /\ IF files = <<>>
       THEN /\ log' = Append(log, LogLine("No files found in inputs.", ""))
            /\ rpc' = "exit1"
       ELSE /\ rpc' = "read"
            /\ UNCHANGED log
    /\ UNCHANGED <<files, fidx, frames, outp, evalVars, boolVars>>

(* try: read_any, normalize_columns, frames.append *)
MainReadOk ==
    /\ rpc = "read"
    /\ fidx <= Len(files)
    /\ files[fidx].readable
    /\ frames' = Append(frames, NormalizeColumns(files[fidx]))
    /\ fidx' = fidx + 1
    /\ UNCHANGED <<files, log, rpc, outp, evalVars, boolVars>>

(* except Exception as e: print(f"Skipping {f}: {e}") *)
MainReadSkip ==
    /\ rpc = "read"
    /\ fidx <= Len(files)
    /\ ~files[fidx].readable
    /\ log' = Append(log, LogLine("Skipping", files[fidx].name))
    /\ fidx' = fidx + 1
    /\ UNCHANGED <<files, frames, rpc, outp, evalVars, boolVars>>

(* if not frames: print("No readable files after parsing."); sys.exit(1) *)
MainNoFrames ==
    /\ rpc = "read"
    /\ fidx > Len(files)
    /\ frames = <<>>
    /\ log' = Append(log, LogLine("No readable files after parsing.", ""))
    /\ rpc' = "exit1"
    /\ UNCHANGED <<files, fidx, frames, outp, evalVars, boolVars>>

(* df_all = pd.concat(frames); df_results = evaluate(df_all, crit, ...) *)
MainEvaluate ==
    /\ rpc = "read"
    /\ fidx > Len(files)
    /\ frames # <<>>
    /\ EvalEntry(Concat(frames), crit)
    /\ rpc' = "eval"
    /\ UNCHANGED <<files, fidx, frames, log, outp, boolVars>>

(* evaluate returned: the workbook and the csv are written *)
MainWrite ==
    /\ rpc = "eval"
    /\ pc = "done"
    /\ outp' = [written |-> TRUE, input |-> df, criteria |-> crit,
                results |-> results, csv |-> results]
    /\ log' = Append(log, LogLine("Wrote results", ""))
    /\ rpc' = "finished"
    /\ UNCHANGED <<files, fidx, frames, evalVars, boolVars>>

InitRun ==
    /\ files \in FileSeqs
    /\ fidx = 1
    /\ frames = <<>>
    /\ log = <<>>
    /\ rpc = "start"
    /\ outp = NoOutp
    /\ EvalIdle
    /\ BoolIdle

NextRun ==
    \/ MainCollect
    \/ MainReadOk
    \/ MainReadSkip
    \/ MainNoFrames
    \/ MainEvaluate
    \/ NextEval
    \/ MainWrite

SpecRun == InitRun /\ [][NextRun]_vars

\* an exception of evaluate is caught nowhere in main: the run ends there
RunEnded == rpc \in {"exit1", "finished"} \/ (rpc = "eval" /\ pc = "raised")
RECURSIVE SkippedNames(_)
SkippedNames(fs) ==
    IF fs = <<>> THEN <<>>
    ELSE (IF Head(fs).readable THEN <<>> ELSE <<Head(fs).name>>) \o SkippedNames(Tail(fs))
RECURSIVE RowsYielded(_)
RowsYielded(fs) ==
    IF fs = <<>> THEN 0
    ELSE (IF Head(fs).readable THEN Len(Head(fs).rows) ELSE 0) + RowsYielded(Tail(fs))
Reported(msgs) == \E k \in 1..Len(log) : log[k].msg \in msgs
NoDataMsgs == {"No files found in inputs.", "No readable files after parsing."}
SkipLog == SelectSeq(log, LAMBDA e : e.msg = "Skipping")
(* C5 (as stated): every file whose read fails is reported and skipped and
   the remaining files are still read and evaluated; the run is fatal only
   if no file yields any record, and exactly then it reports that there is
   no data and produces no results. *)
C5_SkipAndContinue ==
    RunEnded =>
        /\ [k \in 1..Len(SkipLog) |-> SkipLog[k].file] = SkippedNames(files)
        /\ (RowsYielded(files) = 0) <=>
              (Reported(NoDataMsgs) /\ ~outp.written /\ pc = "idle")
        /\ (RowsYielded(files) > 0) =>
              (outp.written /\ Len(outp.results) = RowsYielded(files))

=============================================================================
